---- MODULE Spec2Model ----
(***************************************************************************)
(* Model of play-dl/YouTube/stream.ts: parseAudioFormats and one call of   *)
(* stream_from_info(info, options).  The call is an async function with    *)
(* two suspension points (await request_stream, await                      *)
(* request_content_length); each action below is the code that runs        *)
(* between two suspension points.                                          *)
(***************************************************************************)
EXTENDS Integers, Sequences, FiniteSets, TLC

VARIABLES info, options, given, pc, audioFormat, final, type, result, requests, trace

vars == <<info, options, given, pc, audioFormat, final, type, result, requests, trace>>

(***************************************************************************)
(* Bounds of the model.                                                    *)
(***************************************************************************)
MaxFormats == 2
MaxDuration == 2

(***************************************************************************)
(* JavaScript values of the optional numeric fields (seek, quality,        *)
(* contentLength).  A number is the rational n/d; d = 2 gives the          *)
(* non-integers such as 2.5.                                               *)
(***************************************************************************)
Undefined == [k |-> "undefined", n |-> 0, d |-> 1]
NaN == [k |-> "NaN", n |-> 0, d |-> 1]
Num(i) == [k |-> "number", n |-> i, d |-> 1]
Half(i) == [k |-> "number", n |-> i, d |-> 2]

\* typeof v === 'number' (NaN is of type number)
TypeofNumber(v) == v.k \in {"number", "NaN"}
\* ToBoolean(v): undefined, NaN and 0 are falsy
Truthy(v) == v.k = "number" /\ v.n # 0
\* Number.isInteger(v)
IsInteger(v) == v.k = "number" /\ v.n % v.d = 0
\* v <= i, v >= i, v < i: every comparison with NaN or undefined is false
Leq(v, i) == v.k = "number" /\ v.n <= i * v.d
Geq(v, i) == v.k = "number" /\ v.n >= i * v.d
Lt(v, i) == v.k = "number" /\ v.n < i * v.d

(***************************************************************************)
(* Strings that are parsed are sequences of characters.                    *)
(***************************************************************************)
S_audio == <<"a", "u", "d", "i", "o">>
S_audioSlash == <<"a", "u", "d", "i", "o", "/">>
S_codecsEq == <<"c", "o", "d", "e", "c", "s", "=", "\"">>
S_quote == <<"\"">>
S_semicolon == <<";">>
S_opus == <<"o", "p", "u", "s">>
S_webm == <<"w", "e", "b", "m">>
S_mp4 == <<"m", "p", "4">>
S_mp4a == <<"m", "p", "4", "a">>
S_avc1 == <<"a", "v", "c", "1">>
S_video == <<"v", "i", "d", "e", "o", "/">>
S_sep == <<";", " ">>

\* audio/webm; codecs="opus"
MimeWebmOpus == S_audioSlash \o S_webm \o S_sep \o S_codecsEq \o S_opus \o S_quote
\* audio/mp4; codecs="mp4a"
MimeMp4Aac == S_audioSlash \o S_mp4 \o S_sep \o S_codecsEq \o S_mp4a \o S_quote
\* audio/mp4; codecs="opus"
MimeMp4Opus == S_audioSlash \o S_mp4 \o S_sep \o S_codecsEq \o S_opus \o S_quote
\* video/mp4; codecs="avc1"
MimeVideoMp4 == S_video \o S_mp4 \o S_sep \o S_codecsEq \o S_avc1 \o S_quote
\* audio/webm            (no codecs="..." parameter)
MimeNoCodecs == S_audioSlash \o S_webm
\* audio; codecs="opus"  (no audio/ container part)
MimeNoContainer == S_audio \o S_sep \o S_codecsEq \o S_opus \o S_quote

\* String.prototype.startsWith
StartsWith(s, p) == Len(s) >= Len(p) /\ SubSeq(s, 1, Len(p)) = p

\* String.prototype.indexOf, 1-based; 0 when sep does not occur in s
IndexOf(s, sep) ==
    LET hits == {i \in 1..(Len(s) - Len(sep) + 1) : SubSeq(s, i, i + Len(sep) - 1) = sep}
    IN IF hits = {} THEN 0 ELSE CHOOSE i \in hits : \A j \in hits : i <= j

\* String.prototype.split(sep) for a non-empty separator: always >= 1 piece
RECURSIVE Split(_, _)
Split(s, sep) ==
    LET i == IndexOf(s, sep)
    IN IF i = 0 THEN <<s>>
       ELSE <<SubSeq(s, 1, i - 1)>> \o Split(SubSeq(s, i + Len(sep), Len(s)), sep)

(***************************************************************************)
(* parseAudioFormats.  The result is [threw, value]: threw is TRUE when    *)
(* reading .split of an undefined array element raises a TypeError, which  *)
(* leaves flatMap and the function.                                        *)
(***************************************************************************)
\* the callback of flatMap, lines 36-44; <<>> is [], <<a>> is [a]
ClassifyFormat(format) ==
    LET mime == format.mimeType
        codecParts == Split(mime, S_codecsEq)
        containerParts == Split(mime, S_audioSlash)
    IN IF ~StartsWith(mime, S_audio) THEN [threw |-> FALSE, value |-> <<>>]
       ELSE IF Len(codecParts) < 2 \/ Len(containerParts) < 2
            THEN [threw |-> TRUE, value |-> <<>>]
       ELSE [threw |-> FALSE,
             value |-> <<[codec |-> Split(codecParts[2], S_quote)[1],
                          container |-> Split(containerParts[2], S_semicolon)[1],
                          mimeType |-> format.mimeType,
                          url |-> format.url,
                          contentLength |-> format.contentLength,
                          indexRange |-> format.indexRange,
                          bitrate |-> format.bitrate]>>]

RECURSIVE parseAudioFormats(_)
parseAudioFormats(formats) ==
    IF formats = <<>> THEN [threw |-> FALSE, value |-> <<>>]
    ELSE LET head == ClassifyFormat(Head(formats))
             rest == parseAudioFormats(Tail(formats))
         IN IF head.threw \/ rest.threw THEN [threw |-> TRUE, value |-> <<>>]
            ELSE [threw |-> FALSE, value |-> head.value \o rest.value]

(***************************************************************************)
(* Number(string) for the decimal strings of FormatData (contentLength,    *)
(* indexRange.end).                                                        *)
(***************************************************************************)
DigitValue(c) ==
    CASE c = "0" -> 0 [] c = "1" -> 1 [] c = "2" -> 2 [] c = "3" -> 3 [] c = "4" -> 4
      [] c = "5" -> 5 [] c = "6" -> 6 [] c = "7" -> 7 [] c = "8" -> 8 [] c = "9" -> 9

RECURSIVE DecimalValue(_)
DecimalValue(s) ==
    IF s = <<>> THEN 0
    ELSE 10 * DecimalValue(SubSeq(s, 1, Len(s) - 1)) + DigitValue(s[Len(s)])

\* Number(undefined) is NaN
ToNumber(s) == IF s = <<>> THEN NaN ELSE Num(DecimalValue(s))

(***************************************************************************)
(* The inputs of a call: InfoData and StreamOptions.                       *)
(***************************************************************************)
\* an absent (undefined) optional string of FormatData; it is falsy
NoString == <<>>
S_1000 == <<"1", "0", "0", "0">>
S_258 == <<"2", "5", "8">>

\* the url of the i-th format: formats are served by alternating hosts
UrlOf(i) ==
    [protocol |-> "https:",
     host |-> IF i % 2 = 1 THEN "rr1.googlevideo.com" ELSE "rr2.googlevideo.com",
     pathname |-> "/videoplayback",
     search |-> i]

\* what the extractor reports of one format, the url apart
Descriptors ==
    {[mimeType |-> MimeWebmOpus, contentLength |-> S_1000],
     [mimeType |-> MimeWebmOpus, contentLength |-> NoString],
     [mimeType |-> MimeMp4Aac, contentLength |-> NoString],
     [mimeType |-> MimeMp4Opus, contentLength |-> S_1000],
     [mimeType |-> MimeVideoMp4, contentLength |-> NoString],
     [mimeType |-> MimeNoCodecs, contentLength |-> S_1000],
     [mimeType |-> MimeNoContainer, contentLength |-> S_1000]}

FormatData(desc, i) ==
    [mimeType |-> desc.mimeType,
     url |-> UrlOf(i),
     contentLength |-> desc.contentLength,
     indexRange |-> [end |-> S_258],
     bitrate |-> Num(128000)]

FormatLists ==
    UNION {{[i \in 1..n |-> FormatData(ds[i], i)] : ds \in [1..n -> Descriptors]}
            : n \in 0..MaxFormats}

Null == [k |-> "null", s |-> ""]
ManifestUrl == [k |-> "string", s |-> "https://x/manifest"]
VideoUrl == "https://www.youtube.com/watch?v=id"

InfoDatas ==
    [format : FormatLists,
     LiveStreamData : [isLive : BOOLEAN, dashManifestUrl : {Null, ManifestUrl}],
     video_details : [durationInSec : 0..MaxDuration, url : {VideoUrl}]]

SeekValues == {Undefined} \cup {Num(i) : i \in -1..MaxDuration}
QualityValues == {Undefined, NaN, Half(5)} \cup {Num(i) : i \in -1..MaxFormats}

\* discordPlayerCompatibility: undefined and false behave alike under !
StreamOptions ==
    [seek : SeekValues,
     quality : QualityValues,
     language : {Undefined},
     htmldata : {Undefined},
     precache : {Undefined},
     discordPlayerCompatibility : BOOLEAN]

(***************************************************************************)
(* StreamType and the outcomes of a call.                                  *)
(***************************************************************************)
Arbitrary == "arbitrary"
WebmOpus == "webm/opus"

\* the errors the call rejects with
NotStreamable ==
    [kind |-> "Error",
     error |-> "Upcoming and premiere videos that are not currently live cannot be streamed."]
InvalidArgument == [kind |-> "Error", error |-> "Quality must be set to an integer."]
OutOfRange(duration) ==
    [kind |-> "Error", error |-> "Seeking beyond limit.", limit |-> <<0, duration - 1>>]
UnsupportedOperation ==
    [kind |-> "Error", error |-> "Can not seek with discordPlayerCompatibility set to true."]
ResourceUnavailable == [kind |-> "Error", error |-> "request_stream rejected"]
LengthUnavailable == [kind |-> "Error", error |-> "request_content_length rejected"]
TypeError == [kind |-> "Error", error |-> "TypeError"]

Pending == [kind |-> "pending"]
Unassigned == [k |-> "unassigned"]

LiveStream(format, manifest, video_url, precache) ==
    [kind |-> "LiveStream", format |-> format, dashManifestUrl |-> manifest,
     video_url |-> video_url, precache |-> precache]

SeekStream(format, duration, headerLength, contentLength, bitrate, video_url, opts) ==
    [kind |-> "SeekStream", format |-> format, duration |-> duration,
     headerLength |-> headerLength, contentLength |-> contentLength,
     bitrate |-> bitrate, video_url |-> video_url, options |-> opts]

Stream(format, streamType, duration, contentLength, video_url, opts) ==
    [kind |-> "Stream", format |-> format, type |-> streamType, duration |-> duration,
     contentLength |-> contentLength, video_url |-> video_url, options |-> opts]

(***************************************************************************)
(* The steps of stream_from_info.                                          *)
(***************************************************************************)
\* mutant: the length test can never hold
NoFormats_Negative(i) == Len(i.format) < 0

\* line 70: info.format.length === 0
NoFormats(i) == Len(i.format) = 0

\* mutant: the `options.quality &&` guard is dropped
QualityNotInteger_NoGuard(quality) == ~IsInteger(quality)

\* mutant: the negation of Number.isInteger is dropped
QualityNotInteger_NoNegation(quality) == Truthy(quality) /\ IsInteger(quality)

\* line 72: options.quality && !Number.isInteger(options.quality)
QualityNotInteger(quality) == Truthy(quality) /\ ~IsInteger(quality)

\* lines 75-79: the condition of the live branch
IsLiveBranch(i) ==
    /\ i.LiveStreamData.isLive = TRUE
    /\ i.LiveStreamData.dashManifestUrl # Null
    /\ i.video_details.durationInSec = 0

\* mutant: > for >= in the upper clamp
ClampQuality_OffByOne(quality, length) ==
    IF ~TypeofNumber(quality) THEN Num(length - 1)
    ELSE IF Leq(quality, 0) THEN Num(0)
    ELSE IF Geq(quality, length + 1) THEN Num(length - 1)
    ELSE quality

\* lines 89-91: the value options.quality is set to
ClampQuality(quality, length) ==
    IF ~TypeofNumber(quality) THEN Num(length - 1)
    ELSE IF Leq(quality, 0) THEN Num(0)
    ELSE IF Geq(quality, length) THEN Num(length - 1)
    ELSE quality

\* an array read a[q]: undefined unless q is an index of a
ArrayGet(a, q) ==
    IF q.k = "number" /\ q.d = 1 /\ q.n >= 0 /\ q.n < Len(a)
    THEN [defined |-> TRUE, value |-> a[q.n + 1]]
    ELSE [defined |-> FALSE, value |-> Unassigned]

\* line 92: the selected format
SelectFinal(audio, quality, format) ==
    IF Len(audio) # 0 THEN ArrayGet(audio, quality)
    ELSE ArrayGet(format, Num(Len(format) - 1))

\* lines 93-94: a raw FormatData has no codec and no container
StreamTypeOf(f) ==
    IF /\ "codec" \in DOMAIN f
       /\ f.codec = S_opus
       /\ f.container = S_webm
    THEN WebmOpus ELSE Arbitrary

\* line 95: `https://${new URL(final.url).host}/generate_204`
ProbeUrl(f) ==
    [protocol |-> "https:", host |-> f.url.host, pathname |-> "/generate_204", search |-> 0]

\* mutant: = for ??=
DefaultSeek_Assign(seek) == Num(0)

\* line 98: options.seek ??= 0
DefaultSeek(seek) == IF seek.k = "undefined" THEN Num(0) ELSE seek

\* mutant: > for >= in the upper limit
SeekBeyondLimit_Inclusive(seek, duration) == Geq(seek, duration + 1) \/ Lt(seek, 0)

\* line 99
SeekBeyondLimit(seek, duration) == Geq(seek, duration) \/ Lt(seek, 0)

\* mutant: the compatibility flag is not consulted
TakesSeekBranch_IgnoresCompat(streamType, opts) == streamType = WebmOpus

\* line 97: !options.discordPlayerCompatibility, under type === WebmOpus
TakesSeekBranch(streamType, opts) ==
    streamType = WebmOpus /\ ~opts.discordPlayerCompatibility

\* mutant: the seek is refused outside the type === WebmOpus block too
SeekRefused_AnyType(streamType, opts) ==
    opts.discordPlayerCompatibility /\ Truthy(opts.seek)

\* line 110: else if (options.seek), under type === WebmOpus
SeekRefused(streamType, opts) ==
    streamType = WebmOpus /\ opts.discordPlayerCompatibility /\ Truthy(opts.seek)

\* line 114: if (final.contentLength)
HasContentLength(f) == f.contentLength # NoString

Throw(e) ==
    /\ result' = e
    /\ pc' = "done"

Return(strategy) ==
    /\ result' = strategy
    /\ trace' = Append(trace, "construct")
    /\ pc' = "done"

Init ==
    /\ info \in InfoDatas
    /\ options \in StreamOptions
    /\ given = [info |-> info, options |-> options]
    /\ pc = "start"
    /\ audioFormat = <<>>
    /\ final = Unassigned
    /\ type = Arbitrary
    /\ result = Pending
    /\ requests = <<>>
    /\ trace = <<>>

\* lines 70-95: from the call to the await of request_stream
stream_from_info ==
    /\ pc = "start"
    /\ UNCHANGED <<info, given>>
    /\ IF NoFormats(info)
       THEN /\ Throw(NotStreamable)
            /\ UNCHANGED <<options, audioFormat, final, type, requests, trace>>
       ELSE IF QualityNotInteger(options.quality)
       THEN /\ Throw(InvalidArgument)
            /\ UNCHANGED <<options, audioFormat, final, type, requests, trace>>
       ELSE IF IsLiveBranch(info)
       THEN /\ Return(LiveStream(ArrayGet(info.format, Num(Len(info.format) - 1)).value,
                                 info.LiveStreamData.dashManifestUrl,
                                 info.video_details.url,
                                 options.precache))
            /\ UNCHANGED <<options, audioFormat, final, type, requests>>
       ELSE LET parsed == parseAudioFormats(info.format)
                quality == ClampQuality(options.quality, Len(parsed.value))
                selected == SelectFinal(parsed.value, quality, info.format)
            IN IF parsed.threw
               THEN /\ Throw(TypeError)
                    /\ UNCHANGED <<options, audioFormat, final, type, requests, trace>>
               ELSE /\ audioFormat' = parsed.value
                    /\ options' = [options EXCEPT !.quality = quality]
                    /\ IF ~selected.defined
                       THEN /\ Throw(TypeError)
                            /\ UNCHANGED <<final, type, requests, trace>>
                       ELSE /\ final' = selected.value
                            /\ type' = StreamTypeOf(selected.value)
                            /\ requests' = Append(requests,
                                   [fn |-> "request_stream", url |-> ProbeUrl(selected.value)])
                            /\ trace' = Append(trace, "request_stream")
                            /\ pc' = "request_stream"
                            /\ UNCHANGED result

\* lines 113-127 after the seek branches: sequential delivery
Sequential ==
    IF HasContentLength(final)
    THEN /\ result' = Stream(final, type, info.video_details.durationInSec,
                              ToNumber(final.contentLength), info.video_details.url, options)
         /\ trace' = trace \o <<"request_stream resolved", "construct">>
         /\ pc' = "done"
         /\ UNCHANGED <<options, requests>>
    ELSE /\ requests' = Append(requests, [fn |-> "request_content_length", url |-> final.url])
         /\ trace' = trace \o <<"request_stream resolved", "request_content_length">>
         /\ pc' = "request_content_length"
         /\ UNCHANGED <<options, result>>

\* lines 96-111, then 113-127: the code after await request_stream
Resumed(streamType, opts0) ==
    IF TakesSeekBranch(streamType, opts0)
    THEN LET seek == DefaultSeek(opts0.seek)
             opts == [opts0 EXCEPT !.seek = seek]
         IN /\ options' = opts
            /\ UNCHANGED requests
            /\ IF SeekBeyondLimit(seek, info.video_details.durationInSec)
               THEN /\ Throw(OutOfRange(info.video_details.durationInSec))
                    /\ trace' = trace \o <<"request_stream resolved", "seek">>
               ELSE /\ result' = SeekStream(final, info.video_details.durationInSec,
                                            ToNumber(final.indexRange.end),
                                            ToNumber(final.contentLength),
                                            final.bitrate, info.video_details.url, opts)
                    /\ trace' = trace \o <<"request_stream resolved", "seek", "construct">>
                    /\ pc' = "done"
    ELSE IF SeekRefused(streamType, opts0)
    THEN /\ Throw(UnsupportedOperation)
         /\ trace' = trace \o <<"request_stream resolved", "seek">>
         /\ UNCHANGED <<options, requests>>
    ELSE Sequential

\* line 95: request_stream resolved; runs up to the return or the next await
RequestStreamResolved ==
    /\ pc = "request_stream"
    /\ UNCHANGED <<info, given, audioFormat, final, type>>
    /\ Resumed(type, options)

\* line 95: request_stream rejected; the rejection leaves the call
RequestStreamRejected ==
    /\ pc = "request_stream"
    /\ Throw(ResourceUnavailable)
    /\ trace' = Append(trace, "request_stream rejected")
    /\ UNCHANGED <<info, options, given, audioFormat, final, type, requests>>

\* the lengths request_content_length resolves with
ProbedLengths == {Num(1), Num(4096)}

\* lines 117-127: request_content_length resolved
ContentLengthResolved ==
    /\ pc = "request_content_length"
    /\ \E contentLength \in ProbedLengths :
         result' = Stream(final, type, info.video_details.durationInSec, contentLength,
                          info.video_details.url, options)
    /\ trace' = trace \o <<"request_content_length resolved", "construct">>
    /\ pc' = "done"
    /\ UNCHANGED <<info, options, given, audioFormat, final, type, requests>>

\* line 117: request_content_length rejected
ContentLengthRejected ==
    /\ pc = "request_content_length"
    /\ Throw(LengthUnavailable)
    /\ trace' = Append(trace, "request_content_length rejected")
    /\ UNCHANGED <<info, options, given, audioFormat, final, type, requests>>

Next ==
    \/ stream_from_info
    \/ RequestStreamResolved
    \/ RequestStreamRejected
    \/ ContentLengthResolved
    \/ ContentLengthRejected

Spec == Init /\ [][Next]_vars

(***************************************************************************)
(* Vocabulary of the properties.  The inputs of the call are read from     *)
(* `given`, which no action changes.                                       *)
(***************************************************************************)
Done == pc = "done"
GivenFormat == given.info.format
GivenDuration == given.info.video_details.durationInSec
GivenQuality == given.options.quality
GivenSeek == given.options.seek
GivenCompat == given.options.discordPlayerCompatibility
GivenLive ==
    /\ given.info.LiveStreamData.isLive
    /\ given.info.LiveStreamData.dashManifestUrl = ManifestUrl
    /\ GivenDuration = 0
QualityUnset == GivenQuality = Undefined
QualityWhole == GivenQuality.k = "number" /\ GivenQuality.d = 1
\* a supplied number with a fractional part, such as 2.5
QualityFractional == GivenQuality.k = "number" /\ GivenQuality.d = 2
MalformedMimes == {MimeNoCodecs, MimeNoContainer}
WellFormedAudioMimes == {MimeWebmOpus, MimeMp4Aac, MimeMp4Opus}
HasMalformed == \E i \in DOMAIN GivenFormat : GivenFormat[i].mimeType \in MalformedMimes
HasWellFormed == \E i \in DOMAIN GivenFormat : GivenFormat[i].mimeType \in WellFormedAudioMimes
Invoked(fn) == \E i \in DOMAIN requests : requests[i].fn = fn
Happened(e) == \E i \in DOMAIN trace : trace[i] = e
FinalIsOpusWebm ==
    /\ "codec" \in DOMAIN final
    /\ final.codec = <<"o", "p", "u", "s">>
    /\ final.container = <<"w", "e", "b", "m">>

(***************************************************************************)
(* C1.  A call whose metadata has an empty format sequence fails with      *)
(* NotStreamable whatever the live flags, the duration and the options     *)
(* are (a non-integer quality included), and at no point of the call is    *)
(* request_stream or request_content_length invoked.                       *)
(***************************************************************************)
C1_EmptyFormatNotStreamable ==
    GivenFormat = <<>> =>
        /\ requests = <<>>
        /\ pc \in {"start", "done"}
        /\ Done => result = NotStreamable

C1_Witness ==
    /\ Done
    /\ GivenFormat = <<>>
    /\ QualityFractional
    /\ GivenLive
    /\ result = NotStreamable

(***************************************************************************)
(* C2, as claimed.  Non-empty formats, isLive, a manifest URL and          *)
(* duration 0 give a Live Strategy for every value of the quality option,  *)
(* non-integers included.                                                  *)
(***************************************************************************)
C2_LiveForEveryQuality ==
    (Done /\ GivenFormat # <<>> /\ GivenLive) => result.kind = "LiveStream"

(***************************************************************************)
(* C2, amended.  Non-empty formats, isLive, a manifest URL and duration 0  *)
(* give a Live Strategy (built on the last raw format) for every quality   *)
(* that is unset, an integer or NaN; a supplied number with a fractional   *)
(* part gives InvalidArgument instead.                                     *)
(***************************************************************************)
C2_LiveUnlessQualityFractional ==
    (Done /\ GivenFormat # <<>> /\ GivenLive) =>
        IF QualityFractional
        THEN result = InvalidArgument
        ELSE /\ result.kind = "LiveStream"
             /\ result.format = GivenFormat[Len(GivenFormat)]
             /\ result.dashManifestUrl = ManifestUrl

C2_Witness ==
    /\ Done
    /\ GivenLive
    /\ Len(GivenFormat) = 2
    /\ GivenQuality = Num(1)
    /\ result.kind = "LiveStream"

C4_MalformedSkipped ==
    (Done /\ HasMalformed /\ HasWellFormed /\ ~GivenLive /\ ~QualityFractional) =>
        /\ result # TypeError
        /\ [i \in DOMAIN audioFormat |-> audioFormat[i].mimeType] =
              SelectSeq([i \in DOMAIN GivenFormat |-> GivenFormat[i].mimeType],
                        LAMBDA m : m \in WellFormedAudioMimes)

(***************************************************************************)
(* C5.  Quality selection on the non-live path, for a quality that is      *)
(* unset or an integer and a format sequence that classifies into N audio  *)
(* encodings: the selection is made (the call goes on to the reachability  *)
(* probe); with N > 0 it is audio[N-1] when no quality is requested,       *)
(* audio[0] when the integer is <= 0, audio[N-1] when it is >= N and       *)
(* audio[q] otherwise, the index used (options.quality) lying in           *)
(* [0, N-1]; with N = 0 it is the last entry of the unfiltered sequence.   *)
(***************************************************************************)
C5_QualitySelection ==
    (/\ pc # "start"
     /\ GivenFormat # <<>>
     /\ ~GivenLive
     /\ ~HasMalformed
     /\ QualityUnset \/ QualityWhole) =>
        LET N == Len(audioFormat)
            q == GivenQuality.n
        IN /\ Invoked("request_stream")
           /\ N = Cardinality({i \in DOMAIN GivenFormat :
                                  GivenFormat[i].mimeType \in WellFormedAudioMimes})
           /\ IF N = 0 THEN final = GivenFormat[Len(GivenFormat)]
              ELSE /\ options.quality.k = "number"
                   /\ options.quality.d = 1
                   /\ options.quality.n \in 0..(N - 1)
                   /\ final = audioFormat[options.quality.n + 1]
                   /\ QualityUnset => final = audioFormat[N]
                   /\ (QualityWhole /\ q <= 0) => final = audioFormat[1]
                   /\ (QualityWhole /\ q >= N) => final = audioFormat[N]
                   /\ (QualityWhole /\ q > 0 /\ q < N) => final = audioFormat[q + 1]

\* two distinct audio encodings and a requested quality of 2, clamped to index 1
C5_Witness ==
    /\ pc = "request_stream"
    /\ Len(audioFormat) = 2
    /\ audioFormat[1] # audioFormat[2]
    /\ GivenQuality = Num(2)
    /\ final = audioFormat[2]

(***************************************************************************)
(* C6, as claimed.  On the seekable path (selected encoding opus/webm,     *)
(* compatibility flag not set, not the Live branch), for every duration    *)
(* d >= 0: seek = d fails with OutOfRange, seek = d-1 succeeds with a      *)
(* Seekable Strategy, seek = -1 fails, and an absent seek is treated as 0. *)
(***************************************************************************)
C6_SeekBoundsEveryDuration ==
    (Done /\ Invoked("request_stream") /\ FinalIsOpusWebm /\ ~GivenCompat) =>
        /\ GivenSeek = Num(GivenDuration) => result = OutOfRange(GivenDuration)
        /\ GivenSeek = Num(GivenDuration - 1) => result.kind = "SeekStream"
        /\ GivenSeek = Num(-1) => result.kind = "Error"
        /\ GivenSeek = Undefined => options.seek = Num(0)

(***************************************************************************)
(* C6, amended.  On the seekable path, once the reachability probe has     *)
(* succeeded: seek = d fails with OutOfRange, seek = -1 fails with         *)
(* OutOfRange, seek = d-1 succeeds with a Seekable Strategy when d >= 1    *)
(* (for d = 0 it is -1 and fails), and an absent seek is treated as 0;     *)
(* when the probe fails the call fails with ResourceUnavailable for every  *)
(* seek.                                                                   *)
(***************************************************************************)
C6_SeekBounds ==
    (Done /\ Invoked("request_stream") /\ FinalIsOpusWebm /\ ~GivenCompat) =>
        IF Happened("request_stream rejected")
        THEN result = ResourceUnavailable /\ options.seek = GivenSeek
        ELSE LET d == GivenDuration
                 seek == IF GivenSeek = Undefined THEN 0 ELSE GivenSeek.n
             IN /\ options.seek = Num(seek)
                /\ seek = d => result = OutOfRange(d)
                /\ seek = -1 => result = OutOfRange(d)
                /\ (seek = d - 1 /\ d >= 1) =>
                       /\ result.kind = "SeekStream"
                       /\ result.format = final
                       /\ result.duration = d
                /\ result.kind = "SeekStream" <=> (0 <= seek /\ seek <= d - 1)
                /\ result.kind # "SeekStream" => result = OutOfRange(d)

C6_Witness ==
    /\ Done
    /\ FinalIsOpusWebm
    /\ ~GivenCompat
    /\ GivenDuration = 2
    /\ GivenSeek = Num(1)
    /\ result.kind = "SeekStream"

(***************************************************************************)
(* C7, as claimed.  With the compatibility flag set on a non-live call,    *)
(* for every selected encoding: a non-zero seek makes the call fail with   *)
(* UnsupportedOperation, a seek of 0 or an unset seek makes it succeed     *)
(* with a Sequential Strategy.                                             *)
(***************************************************************************)
C7_CompatEveryEncoding ==
    (Done /\ Invoked("request_stream") /\ GivenCompat) =>
        IF GivenSeek.k = "number" /\ GivenSeek.n # 0
        THEN result = UnsupportedOperation
        ELSE result.kind = "Stream"

(***************************************************************************)
(* C7, amended.  With the compatibility flag set on a non-live call whose  *)
(* reachability probe succeeded: when the selected encoding is opus/webm,  *)
(* a non-zero seek makes the call fail with UnsupportedOperation; in every *)
(* other case (seek 0 or unset, or an encoding that is not opus/webm,      *)
(* whose seek is ignored) the call yields a Sequential Strategy, never a   *)
(* Seekable one, unless the content-length probe it needs fails.           *)
(***************************************************************************)
C7_CompatSeek ==
    (Done /\ GivenCompat /\ Happened("request_stream resolved")) =>
        IF FinalIsOpusWebm /\ GivenSeek.k = "number" /\ GivenSeek.n # 0
        THEN result = UnsupportedOperation /\ ~Invoked("request_content_length")
        ELSE IF Happened("request_content_length rejected")
        THEN result = LengthUnavailable /\ final.contentLength = <<>>
        ELSE /\ result.kind = "Stream"
             /\ result.format = final
             /\ options.seek = GivenSeek

C7_Witness ==
    /\ Done
    /\ GivenCompat
    /\ FinalIsOpusWebm
    /\ GivenSeek = Num(1)
    /\ result = UnsupportedOperation

(***************************************************************************)
(* C8.  The reachability probe is invoked in a call if and only if the     *)
(* call passes the empty-format and quality checks and does not take the   *)
(* Live branch; it is then invoked exactly once, against the selected      *)
(* encoding's origin host, before any seek validation, content-length      *)
(* probe or strategy construction; when it fails the call fails with       *)
(* ResourceUnavailable for every seek and compatibility flag, and no       *)
(* content-length probe and no strategy construction follow.               *)
(***************************************************************************)
C8_ProbeExactlyWhenChecksPass ==
    pc # "start" =>
        /\ Invoked("request_stream") <=>
               (GivenFormat # <<>> /\ ~QualityFractional /\ ~GivenLive)
        /\ Cardinality({i \in DOMAIN requests : requests[i].fn = "request_stream"}) <= 1
        /\ Invoked("request_stream") =>
               /\ requests[1].fn = "request_stream"
               /\ requests[1].url.host = final.url.host
               /\ requests[1].url.pathname = "/generate_204"
               /\ trace[1] = "request_stream"
        /\ Happened("request_stream rejected") =>
               /\ result = ResourceUnavailable
               /\ ~Invoked("request_content_length")
               /\ ~Happened("seek")
               /\ ~Happened("construct")

(***************************************************************************)
(* C9.  For every successful non-live call the kind of strategy is a       *)
(* function of the selected encoding and the compatibility flag only: a    *)
(* Seekable Strategy if and only if the selected encoding is opus/webm and *)
(* the flag is not set, a Sequential Strategy in every other case (the     *)
(* fallback to a raw descriptor included); a Sequential Strategy carries   *)
(* the tag webm/opus exactly when the selected encoding is opus/webm,      *)
(* otherwise the tag arbitrary.                                            *)
(***************************************************************************)
C9_StrategyKind ==
    (Done /\ result.kind \in {"SeekStream", "Stream"}) =>
        /\ result.format = final
        /\ result.kind = "SeekStream" <=> (FinalIsOpusWebm /\ ~GivenCompat)
        /\ result.kind = "Stream" =>
               result.type = IF FinalIsOpusWebm THEN "webm/opus" ELSE "arbitrary"
        /\ (audioFormat = <<>>) =>
               /\ final = GivenFormat[Len(GivenFormat)]
               /\ result.kind = "Stream"
               /\ result.type = "arbitrary"

\* compatibility mode: an opus/webm encoding delivered sequentially, tagged webm/opus
C9_Witness ==
    /\ Done
    /\ FinalIsOpusWebm
    /\ GivenCompat
    /\ result.kind = "Stream"
    /\ result.type = "webm/opus"

(***************************************************************************)
(* C10.  What a call leaves unchanged: the metadata is never modified; of  *)
(* the options only quality and seek are ever written; a call that ends in *)
(* NotStreamable, InvalidArgument or a Live Strategy leaves the options as *)
(* given; seek is written only when it was absent and only on the seekable *)
(* path (opus/webm, compatibility flag unset, reachability probe           *)
(* succeeded), where it becomes 0; on the sequential path an absent seek   *)
(* stays absent.                                                           *)
(***************************************************************************)
C10_Frame ==
    /\ info = given.info
    /\ \A f \in {"language", "htmldata", "precache", "discordPlayerCompatibility"} :
           options[f] = given.options[f]
    /\ (Done /\ (result \in {NotStreamable, InvalidArgument} \/ result.kind = "LiveStream")) =>
           options = given.options
    /\ options.seek # GivenSeek =>
           /\ GivenSeek = Undefined
           /\ options.seek = Num(0)
           /\ FinalIsOpusWebm
           /\ ~GivenCompat
           /\ Happened("request_stream resolved")
    /\ (Happened("request_stream resolved") /\ FinalIsOpusWebm /\ ~GivenCompat
            /\ GivenSeek = Undefined) =>
           options.seek = Num(0)
    /\ (pc = "request_content_length" \/ (Done /\ result.kind = "Stream")) =>
           options.seek = GivenSeek

C10_Witness ==
    /\ Done
    /\ GivenSeek = Undefined
    /\ options.seek = Num(0)
    /\ options.quality # GivenQuality
    /\ result.kind = "SeekStream"

====
